---- MODULE Spec2Model ----
(***************************************************************************)
(* Etcd3Store (src/src/express-session-etcd3.ts): the express-session     *)
(* store adapter over an etcd v3 client.  The adapter's methods are        *)
(* translated one action each; the etcd3 client is the environment: a     *)
(* key-value store with leases that answers each request by resolving or  *)
(* rejecting, or throws while a request is being built.                   *)
(*                                                                         *)
(* Encodings.  A JavaScript string is the sequence of its one-character   *)
(* strings, so that `+` is \o and a prefix scan is a real prefix test.    *)
(* A JavaScript value is a record tagged with its `typeof`.  A number of  *)
(* seconds is an integer; cookie.maxAge, a number of milliseconds, is     *)
(* written in base 1000 (kilo * 1000 + unit, 0 <= unit < 1000) because    *)
(* the clamp at maxTTL needs values beyond 2^31 milliseconds.             *)
(***************************************************************************)
EXTENDS Integers, Sequences, FiniteSets, TLC

VARIABLES store, leases, calls, app

vars == <<store, leases, calls, app>>

----------------------------------------------------------------------------
(* JavaScript values *)

Undefined == [type |-> "undefined"]
Null == [type |-> "null"]
Num(n) == [type |-> "number", nan |-> FALSE, num |-> n]
NaN == [type |-> "number", nan |-> TRUE, num |-> 0]
Str(s) == [type |-> "string", str |-> s]
Bool(b) == [type |-> "boolean", bool |-> b]
Obj == [type |-> "object"]
Fn(f) == [type |-> "function", fn |-> f]
Date(d) == [type |-> "date", iso |-> d]
Millis(k, u) == [type |-> "number", nan |-> FALSE, kilo |-> k, unit |-> u]
Err(name) == [type |-> "error", name |-> name]

IsMillis(v) == v.type = "number" /\ "kilo" \in DOMAIN v

(* JavaScript truthiness of the values an override can take. *)
Truthy(v) ==
    CASE v.type = "undefined" -> FALSE
      [] v.type = "null" -> FALSE
      [] v.type = "boolean" -> v.bool
      [] v.type = "number" -> ~v.nan /\ (IF IsMillis(v) THEN v.kilo # 0 \/ v.unit # 0 ELSE v.num # 0)
      [] v.type = "string" -> v.str # <<>>
      [] OTHER -> TRUE

----------------------------------------------------------------------------
(* Program constants *)

oneDay == 86400

maxTTL == 6442450

DefaultPrefix == <<"s", "e", "s", "s">>

defaultOptions == [prefix |-> Str(DefaultPrefix), skipTouch |-> FALSE]

----------------------------------------------------------------------------
(* Strings *)

Slash == <<"/">>

IsPrefix(p, s) == Len(p) <= Len(s) /\ SubSeq(s, 1, Len(p)) = p

DigitChars == {"0", "1", "2", "3", "4", "5", "6", "7", "8", "9"}

DigitVal(c) ==
    CASE c = "0" -> 0 [] c = "1" -> 1 [] c = "2" -> 2 [] c = "3" -> 3 [] c = "4" -> 4
      [] c = "5" -> 5 [] c = "6" -> 6 [] c = "7" -> 7 [] c = "8" -> 8 [] c = "9" -> 9

AllDigits(s) == \A i \in 1..Len(s) : s[i] \in DigitChars

RECURSIVE DecimalValue(_)
DecimalValue(s) ==
    IF s = <<>> THEN 0
    ELSE DecimalValue(SubSeq(s, 1, Len(s) - 1)) * 10 + DigitVal(s[Len(s)])

(* Number(s) for a string of decimal digits with an optional sign: the    *)
(* empty string is 0, anything that is not a numeral is NaN.               *)
Number(s) ==
    IF s = <<>> THEN Num(0)
    ELSE IF AllDigits(s) THEN Num(DecimalValue(s))
    ELSE IF s[1] = "-" /\ Len(s) > 1 /\ AllDigits(Tail(s)) THEN Num(0 - DecimalValue(Tail(s)))
    ELSE NaN

----------------------------------------------------------------------------
(* Results of a synchronous evaluation: a returned value or a thrown one. *)

Return(v) == [threw |-> FALSE, val |-> v]

Throw(e) == [threw |-> TRUE, val |-> e]

----------------------------------------------------------------------------
(* key, getRawTTL, getTTL *)

(* key without the default prefix. *)
key_noDefault(self, sid) ==
    (IF self.prefix.type = "string" THEN self.prefix.str ELSE <<>>) \o Slash \o sid

key(self, sid) ==
    (IF Truthy(self.prefix) THEN self.prefix.str ELSE defaultOptions.prefix.str)
        \o Slash \o sid

(* Math.floor(maxAge / 1000) of a number of milliseconds. *)
MathFloorDiv1000(m) == IF m.nan THEN NaN ELSE Num(m.kilo)

(* The functions a test or an application assigns to store.ttl; each is   *)
(* called as storeTtl(this, sess, sid).                                    *)
CallFn(f, a, b, c) ==
    CASE f.fn = "const666" -> Num(666)
      [] f.fn = "overMax" -> Num(maxTTL + 1)
      [] f.fn = "sidLength" -> Num(Len(c))
      [] f.fn = "recordSeconds" ->
            IF b.cookie.maxAge.type = "number" /\ ~b.cookie.maxAge.nan
            THEN Num(b.cookie.maxAge.kilo + 1) ELSE Num(1)
      [] f.fn = "adapterFlag" -> IF a.skipTouch THEN Num(2) ELSE Num(3)

(* getRawTTL reading cookie.maxAge before a string override. *)
getRawTTL_stringIgnored(self, sess, sid) ==
    LET storeTtl == self.ttl IN
    IF storeTtl.type = "number" THEN Return(storeTtl)
    ELSE IF storeTtl.type = "function" THEN Return(CallFn(storeTtl, self, sess, sid))
    ELSE IF Truthy(storeTtl) /\ storeTtl.type # "string" THEN Throw(Err("TypeError"))
    ELSE LET maxAge == sess.cookie.maxAge IN
         IF maxAge.type = "number" THEN Return(MathFloorDiv1000(maxAge))
         ELSE Return(Num(oneDay))

getRawTTL(self, sess, sid) ==
    LET storeTtl == self.ttl IN
    IF storeTtl.type = "number" THEN Return(storeTtl)
    ELSE IF storeTtl.type = "string" THEN Return(Number(storeTtl.str))
    ELSE IF storeTtl.type = "function" THEN Return(CallFn(storeTtl, self, sess, sid))
    ELSE IF Truthy(storeTtl) THEN Throw(Err("TypeError"))
    ELSE LET maxAge == sess.cookie.maxAge IN
         IF maxAge.type = "number" THEN Return(MathFloorDiv1000(maxAge))
         ELSE Return(Num(oneDay))

(* rawTTL > maxTTL, on numbers: false whenever rawTTL is NaN. *)
GreaterThan(v, n) == ~v.nan /\ v.num > n

(* getTTL raising the value to a minimum of one second. *)
getTTL_atLeastOne(self, sess, sid) ==
    LET rawTTL == getRawTTL(self, sess, sid) IN
    IF rawTTL.threw THEN rawTTL
    ELSE IF GreaterThan(rawTTL.val, maxTTL) THEN Return(Num(maxTTL))
    ELSE IF ~rawTTL.val.nan /\ rawTTL.val.num < 1 THEN Return(Num(1))
    ELSE rawTTL

(* getTTL without the clamp. *)
getTTL_unclamped(self, sess, sid) == getRawTTL(self, sess, sid)

getTTL(self, sess, sid) ==
    LET rawTTL == getRawTTL(self, sess, sid) IN
    IF rawTTL.threw THEN rawTTL
    ELSE IF GreaterThan(rawTTL.val, maxTTL) THEN Return(Num(maxTTL)) ELSE rawTTL

----------------------------------------------------------------------------
(* JSON.stringify and JSON.parse on session records.  A text is the tree  *)
(* of what JSON.stringify writes: a property whose value is undefined is  *)
(* left out, NaN is written as null, a Date as its ISO string.  BadText   *)
(* is a stored value that is not JSON ('typo{b:1}' in the tests).         *)

Absent == [type |-> "absent"]

ToJSON(v) ==
    CASE v.type = "undefined" -> Absent
      [] v.type = "function" -> Absent
      [] v.type = "number" -> IF v.nan THEN Null ELSE v
      [] v.type = "date" -> Str(v.iso)
      [] OTHER -> v

FromJSON(j) == IF j = Absent THEN Undefined ELSE j

JSONstringify(sess) ==
    [text |-> "json",
     cookie |-> [maxAge |-> ToJSON(sess.cookie.maxAge),
                 expires |-> ToJSON(sess.cookie.expires)]]

BadText == [text |-> "typo{b:1}"]

JSONparse(t) ==
    IF t.text # "json" THEN Throw(Err("SyntaxError"))
    ELSE Return([cookie |-> [maxAge |-> FromJSON(t.cookie.maxAge),
                             expires |-> FromJSON(t.cookie.expires)]])

Session(maxAge, expires) == [cookie |-> [maxAge |-> maxAge, expires |-> expires]]

Arr(items) == [type |-> "array", items |-> items]

----------------------------------------------------------------------------
(* The etcd store behind the client: keys bound to leases. *)

(* Character order of the keys the model builds (their ASCII order). *)
CharRank(c) ==
    CASE c = "/" -> 1 [] c = "a" -> 2 [] c = "b" -> 3 [] c = "e" -> 4
      [] c = "p" -> 5 [] c = "s" -> 6

RECURSIVE KeyLess(_, _)
KeyLess(a, b) ==
    IF a = <<>> THEN b # <<>>
    ELSE IF b = <<>> THEN FALSE
    ELSE IF a[1] = b[1] THEN KeyLess(Tail(a), Tail(b))
    ELSE CharRank(a[1]) < CharRank(b[1])

RECURSIVE SortedKeys(_)
SortedKeys(S) ==
    IF S = {} THEN <<>>
    ELSE LET m == CHOOSE k \in S : \A o \in S \ {k} : KeyLess(k, o)
         IN <<m>> \o SortedKeys(S \ {m})

(* The keys a prefix-scoped request covers. *)
Under(p, st) == {k \in DOMAIN st : IsPrefix(p, k)}

(* client.get(key).json() *)
RangeOneJson(st, k) == IF k \in DOMAIN st THEN JSONparse(st[k].value) ELSE Return(Null)

(* client.getAll().prefix(p).json(), then Object.values *)
RangeAllJson(st, p) ==
    LET ks == SortedKeys(Under(p, st))
        bad == {i \in 1..Len(ks) : JSONparse(st[ks[i]].value).threw}
    IN IF bad # {}
       THEN JSONparse(st[ks[CHOOSE i \in bad : \A j \in bad : i <= j]].value)
       ELSE Return(Arr([i \in 1..Len(ks) |-> JSONparse(st[ks[i]].value).val]))

(* client.getAll().prefix(p).count() *)
RangeCount(st, p) == Num(Cardinality(Under(p, st)))

(* client.delete().prefix(p) *)
DeletePrefix(st, p) == [k \in DOMAIN st \ Under(p, st) |-> st[k]]

(* A put that leaves an existing key bound to the lease it had. *)
PutUnderLease_keepsLease(st, k, text, l) ==
    [x \in DOMAIN st \cup {k} |->
        IF x = k
        THEN [value |-> text, lease |-> IF k \in DOMAIN st THEN st[k].lease ELSE l]
        ELSE st[x]]

(* lease.put(key).value(text) *)
PutUnderLease(st, k, text, l) ==
    [x \in DOMAIN st \cup {k} |-> IF x = k THEN [value |-> text, lease |-> l] ELSE st[x]]

(* new Lease(ttl) of the etcd3 client refuses a TTL that is not at least 1. *)
LeaseThrows(ttl) == ttl.nan \/ ttl.num < 1

----------------------------------------------------------------------------
(* Adapters, calls and callbacks *)

MaxCalls == 2

Calls == 1..MaxCalls

(* An Etcd3Store: its config and the `ttl` property read by getRawTTL. *)
Adapter(prefix, skipTouch, ttl) == [prefix |-> prefix, skipTouch |-> skipTouch, ttl |-> ttl]

NoSession == Session(Undefined, Undefined)

(* One invocation of a method.  pc: idle, grant (lease requested), request *)
(* (range, delete or put requested), done.  cbs: the invocations of the    *)
(* callback, in order; thrown: what the method threw to its caller; ret:   *)
(* what it returned; reqs: the store requests issued.  History kept for    *)
(* the properties: after (the calls that had completed when this one was   *)
(* made), fault and reason (whether the client threw or rejected, and      *)
(* with what), saw (the lease of the entry a get read, -1 when the key was *)
(* absent), removed (the keys a delete removed).                           *)
IdleCall ==
    [pc |-> "idle", op |-> "none", self |-> Adapter(Undefined, FALSE, Undefined),
     sid |-> <<>>, sess |-> NoSession, ttl |-> Undefined, reqs |-> 0, cbs |-> <<>>,
     thrown |-> Undefined, ret |-> Undefined, released |-> FALSE,
     after |-> {}, fault |-> "none", reason |-> Undefined, saw |-> 0, removed |-> {}]

Begin(op, self, sid, sess) ==
    [IdleCall EXCEPT !.op = op, !.self = self, !.sid = sid, !.sess = sess,
                     !.after = {b \in 1..MaxCalls : calls[b].pc = "done"}]

Issue(call, pc) == [call EXCEPT !.pc = pc, !.reqs = @ + 1]

Called(call, cb) == [call EXCEPT !.pc = "done", !.cbs = Append(@, cb)]

Faulted(call, fault, e) == [call EXCEPT !.fault = fault, !.reason = e]

(* callbackWithLog(cb, err = null, value = null): cb(err, value) *)
callbackWithLog(err, value) ==
    [err |-> IF err = Undefined THEN Null ELSE err,
     value |-> IF value = Undefined THEN Null ELSE value]

(* callback(err) *)
callback(err) == [err |-> err, value |-> Undefined]

(* What the client throws when it blows up while a request is built. *)
ClientError == Err("Error")

(* Calls take the slots in order. *)
CanStart(c) ==
    /\ calls[c].pc = "idle"
    /\ \A b \in Calls : b < c => calls[b].pc # "idle"

Awaits(c, ops) == calls[c].pc = "request" /\ calls[c].op \in ops

----------------------------------------------------------------------------
(* get *)

(* get letting the client's exception escape. *)
get_uncaught(c, self, sid, blowUp) ==
    /\ CanStart(c)
    /\ calls' = [calls EXCEPT ![c] =
            IF blowUp
            THEN [Faulted(Begin("get", self, sid, NoSession), "threw", ClientError)
                    EXCEPT !.pc = "done", !.thrown = ClientError]
            ELSE Issue(Begin("get", self, sid, NoSession), "request")]
    /\ UNCHANGED <<store, leases, app>>

get(c, self, sid, blowUp) ==
    /\ CanStart(c)
    /\ calls' = [calls EXCEPT ![c] =
            IF blowUp
            THEN Called(Faulted(Begin("get", self, sid, NoSession), "threw", ClientError),
                        callbackWithLog(ClientError, Undefined))
            ELSE Issue(Begin("get", self, sid, NoSession), "request")]
    /\ UNCHANGED <<store, leases, app>>

(* The success handler of get deleting a value it cannot parse. *)
getResolved_dropsMalformed(c) ==
    /\ Awaits(c, {"get"})
    /\ LET k == key(calls[c].self, calls[c].sid)
           json == RangeOneJson(store, k)
       IN /\ calls' = [calls EXCEPT ![c] =
                Called([@ EXCEPT !.saw = IF k \in DOMAIN store THEN store[k].lease ELSE 0 - 1],
                       IF json.threw THEN callbackWithLog(json.val, Undefined)
                       ELSE callbackWithLog(Null, json.val))]
          /\ store' = IF json.threw THEN [x \in DOMAIN store \ {k} |-> store[x]] ELSE store
    /\ UNCHANGED <<leases, app>>

(* The success handler of get treating a missing key as an ENOENT error. *)
getResolved_missingIsError(c) ==
    /\ Awaits(c, {"get"})
    /\ LET k == key(calls[c].self, calls[c].sid)
           json == RangeOneJson(store, k)
       IN calls' = [calls EXCEPT ![c] =
            Called([@ EXCEPT !.saw = IF k \in DOMAIN store THEN store[k].lease ELSE 0 - 1],
                   IF json.threw THEN callbackWithLog(json.val, Undefined)
                   ELSE IF json.val = Null THEN callbackWithLog(Err("ENOENT"), Undefined)
                   ELSE callbackWithLog(Null, json.val))]
    /\ UNCHANGED <<store, leases, app>>

getResolved(c) ==
    /\ Awaits(c, {"get"})
    /\ LET k == key(calls[c].self, calls[c].sid)
           json == RangeOneJson(store, k)
       IN calls' = [calls EXCEPT ![c] =
            Called([@ EXCEPT !.saw = IF k \in DOMAIN store THEN store[k].lease ELSE 0 - 1],
                   IF json.threw THEN callbackWithLog(json.val, Undefined)
                   ELSE callbackWithLog(Null, json.val))]
    /\ UNCHANGED <<store, leases, app>>

(* set, and touch *)

SetCall(op, self, sid, sess, blowUp) ==
    LET ttl == getTTL(self, sess, sid)
        call == Begin(op, self, sid, sess)
    IN IF ttl.threw THEN [call EXCEPT !.pc = "done", !.thrown = ttl.val]
       ELSE IF blowUp \/ LeaseThrows(ttl.val)
            THEN Called(Faulted([call EXCEPT !.ttl = ttl.val], "threw", ClientError),
                        callback(ClientError))
            ELSE Issue([call EXCEPT !.ttl = ttl.val], "grant")

set(c, self, sid, sess, blowUp) ==
    /\ CanStart(c)
    /\ calls' = [calls EXCEPT ![c] = SetCall("set", self, sid, sess, blowUp)]
    /\ UNCHANGED <<store, leases, app>>

(* touch without the skipTouch test. *)
touch_neverSkips(c, self, sid, sess, blowUp) ==
    /\ CanStart(c)
    /\ calls' = [calls EXCEPT ![c] = SetCall("touch", self, sid, sess, blowUp)]
    /\ UNCHANGED <<store, leases, app>>

(* touch handing the error of TTL resolution to the callback. *)
touch_reportsTtlError(c, self, sid, sess, blowUp) ==
    /\ CanStart(c)
    /\ calls' = [calls EXCEPT ![c] =
            IF getTTL(self, sess, sid).threw
            THEN Called(Begin("touch", self, sid, sess), callback(getTTL(self, sess, sid).val))
            ELSE SetCall("touch", self, sid, sess, blowUp)]
    /\ UNCHANGED <<store, leases, app>>

touch(c, self, sid, sess, blowUp) ==
    /\ CanStart(c)
    /\ calls' = [calls EXCEPT ![c] =
            IF self.skipTouch
            THEN Called(Begin("touch", self, sid, sess), callback(Null))
            ELSE SetCall("touch", self, sid, sess, blowUp)]
    /\ UNCHANGED <<store, leases, app>>

(* The store grants the lease of a set; the put goes out under it. *)
leaseGranted(c) ==
    /\ calls[c].pc = "grant"
    /\ leases' = [l \in DOMAIN leases \cup {c} |->
            IF l = c THEN [ttl |-> calls[c].ttl.num, keepalive |-> TRUE, expired |-> FALSE]
            ELSE leases[l]]
    /\ calls' = [calls EXCEPT ![c] = Issue(@, "request")]
    /\ UNCHANGED <<store, app>>

(* A write that a touch applies only to a key that exists. *)
setResolved_touchNeedsKey(c) ==
    /\ Awaits(c, {"set", "touch"})
    /\ store' = IF calls[c].op = "touch" /\ key(calls[c].self, calls[c].sid) \notin DOMAIN store
                THEN store
                ELSE PutUnderLease(store, key(calls[c].self, calls[c].sid),
                                   JSONstringify(calls[c].sess), c)
    /\ leases' = [leases EXCEPT ![c].keepalive = FALSE]
    /\ calls' = [calls EXCEPT ![c] =
            Called([@ EXCEPT !.released = TRUE], callbackWithLog(Undefined, Undefined))]
    /\ UNCHANGED app

(* The success handler of set without leasing.release(). *)
setResolved_keepsAlive(c) ==
    /\ Awaits(c, {"set", "touch"})
    /\ store' = PutUnderLease(store, key(calls[c].self, calls[c].sid),
                              JSONstringify(calls[c].sess), c)
    /\ calls' = [calls EXCEPT ![c] = Called(@, callbackWithLog(Undefined, Undefined))]
    /\ UNCHANGED <<leases, app>>

(* The success handler of set calling back a second time after release. *)
setResolved_callsBackTwice(c) ==
    /\ Awaits(c, {"set", "touch"})
    /\ store' = PutUnderLease(store, key(calls[c].self, calls[c].sid),
                              JSONstringify(calls[c].sess), c)
    /\ leases' = [leases EXCEPT ![c].keepalive = FALSE]
    /\ calls' = [calls EXCEPT ![c] =
            Called(Called([@ EXCEPT !.released = TRUE], callbackWithLog(Undefined, Undefined)),
                   callbackWithLog(Undefined, Undefined))]
    /\ UNCHANGED app

setResolved(c) ==
    /\ Awaits(c, {"set", "touch"})
    /\ store' = PutUnderLease(store, key(calls[c].self, calls[c].sid),
                              JSONstringify(calls[c].sess), c)
    /\ leases' = [leases EXCEPT ![c].keepalive = FALSE]
    /\ calls' = [calls EXCEPT ![c] =
            Called([@ EXCEPT !.released = TRUE], callbackWithLog(Undefined, Undefined))]
    /\ UNCHANGED app

(* all *)

all(c, self, blowUp) ==
    /\ CanStart(c)
    /\ calls' = [calls EXCEPT ![c] =
            IF blowUp
            THEN Called(Faulted(Begin("all", self, <<>>, NoSession), "threw", ClientError),
                        callbackWithLog(ClientError, Undefined))
            ELSE Issue(Begin("all", self, <<>>, NoSession), "request")]
    /\ UNCHANGED <<store, leases, app>>

(* all leaving out the values that are not JSON. *)
allResolved_skipsMalformed(c) ==
    /\ Awaits(c, {"all"})
    /\ LET p == key(calls[c].self, <<>>)
           good == [k \in {x \in Under(p, store) : ~JSONparse(store[x].value).threw}
                       |-> store[k]]
       IN calls' = [calls EXCEPT ![c] =
            Called(@, callbackWithLog(Null, RangeAllJson(good, p).val))]
    /\ UNCHANGED <<store, leases, app>>

allResolved(c) ==
    /\ Awaits(c, {"all"})
    /\ LET json == RangeAllJson(store, key(calls[c].self, <<>>))
       IN calls' = [calls EXCEPT ![c] =
            Called(@, IF json.threw THEN callbackWithLog(json.val, Undefined)
                      ELSE callbackWithLog(Null, json.val))]
    /\ UNCHANGED <<store, leases, app>>

(* length *)

length(c, self, blowUp) ==
    /\ CanStart(c)
    /\ calls' = [calls EXCEPT ![c] =
            IF blowUp
            THEN Called(Faulted(Begin("length", self, <<>>, NoSession), "threw", ClientError),
                        callbackWithLog(ClientError, Undefined))
            ELSE Issue(Begin("length", self, <<>>, NoSession), "request")]
    /\ UNCHANGED <<store, leases, app>>

(* length counting every key of the store. *)
lengthResolved_countsAll(c) ==
    /\ Awaits(c, {"length"})
    /\ calls' = [calls EXCEPT ![c] =
            Called(@, callbackWithLog(Null, Num(Cardinality(DOMAIN store))))]
    /\ UNCHANGED <<store, leases, app>>

lengthResolved(c) ==
    /\ Awaits(c, {"length"})
    /\ calls' = [calls EXCEPT ![c] =
            Called(@, callbackWithLog(Null, RangeCount(store, key(calls[c].self, <<>>))))]
    /\ UNCHANGED <<store, leases, app>>

(* destroy *)

destroy(c, self, sid, blowUp) ==
    /\ CanStart(c)
    /\ calls' = [calls EXCEPT ![c] =
            IF blowUp
            THEN Called(Faulted(Begin("destroy", self, sid, NoSession), "threw", ClientError),
                        callback(ClientError))
            ELSE Issue(Begin("destroy", self, sid, NoSession), "request")]
    /\ UNCHANGED <<store, leases, app>>

(* A delete acknowledged without having been applied. *)
destroyResolved_notApplied(c) ==
    /\ Awaits(c, {"destroy"})
    /\ calls' = [calls EXCEPT ![c] = Called(@, callbackWithLog(Undefined, Undefined))]
    /\ UNCHANGED <<store, leases, app>>

destroyResolved(c) ==
    /\ Awaits(c, {"destroy"})
    /\ store' = DeletePrefix(store, key(calls[c].self, calls[c].sid))
    /\ calls' = [calls EXCEPT ![c] =
            Called([@ EXCEPT !.removed = Under(key(calls[c].self, calls[c].sid), store)],
                   callbackWithLog(Undefined, Undefined))]
    /\ UNCHANGED <<leases, app>>

(* clear *)

clear(c, self, blowUp) ==
    /\ CanStart(c)
    /\ calls' = [calls EXCEPT ![c] =
            IF blowUp
            THEN Called(Faulted(Begin("clear", self, <<>>, NoSession), "threw", ClientError),
                        callbackWithLog(ClientError, Undefined))
            ELSE Issue(Begin("clear", self, <<>>, NoSession), "request")]
    /\ UNCHANGED <<store, leases, app>>

clearResolved(c) ==
    /\ Awaits(c, {"clear"})
    /\ store' = DeletePrefix(store, key(calls[c].self, <<>>))
    /\ calls' = [calls EXCEPT ![c] =
            Called([@ EXCEPT !.removed = Under(key(calls[c].self, <<>>), store)],
                   callbackWithLog(Undefined, Undefined))]
    /\ UNCHANGED <<leases, app>>

(* A rejection handler that releases the lease of the call. *)
rejected_releases(c, e) ==
    /\ calls[c].pc \in {"grant", "request"}
    /\ calls' = [calls EXCEPT ![c] =
            Called(Faulted([@ EXCEPT !.released = TRUE], "rejected", e),
                   callbackWithLog(e, Undefined))]
    /\ leases' = [l \in DOMAIN leases |->
            IF l = c THEN [leases[l] EXCEPT !.keepalive = FALSE] ELSE leases[l]]
    /\ UNCHANGED <<store, app>>

(* A rejection handler that reports success. *)
rejected_swallowed(c, e) ==
    /\ calls[c].pc \in {"grant", "request"}
    /\ calls' = [calls EXCEPT ![c] =
            Called(Faulted(@, "rejected", e), callbackWithLog(Undefined, Undefined))]
    /\ UNCHANGED <<store, leases, app>>

(* The second argument of every .then: err => this.callbackWithLog(callback, err) *)
rejected(c, e) ==
    /\ calls[c].pc \in {"grant", "request"}
    /\ calls' = [calls EXCEPT ![c] =
            Called(Faulted(@, "rejected", e), callbackWithLog(e, Undefined))]
    /\ UNCHANGED <<store, leases, app>>

(* Expiry dropping the key the lease was created for, whatever lease the  *)
(* key is bound to by then.                                                *)
expire_dropsWrittenKey(l) ==
    /\ l \in DOMAIN leases
    /\ ~leases[l].keepalive /\ ~leases[l].expired
    /\ leases' = [leases EXCEPT ![l].expired = TRUE]
    /\ store' = [k \in {x \in DOMAIN store :
                          store[x].lease # l /\ x # key(calls[l].self, calls[l].sid)}
                    |-> store[k]]
    /\ UNCHANGED <<calls, app>>

(* A lease nobody keeps alive runs out; the store drops the keys bound to it. *)
expire(l) ==
    /\ l \in DOMAIN leases
    /\ ~leases[l].keepalive /\ ~leases[l].expired
    /\ leases' = [leases EXCEPT ![l].expired = TRUE]
    /\ store' = [k \in {x \in DOMAIN store : store[x].lease # l} |-> store[k]]
    /\ UNCHANGED <<calls, app>>

(* subject['getTTL'](sess, sid) and subject['getRawTTL'](sess, sid), called *)
(* on the adapter directly, as the tests do.                               *)
Returned(call, r) ==
    IF r.threw THEN [call EXCEPT !.pc = "done", !.thrown = r.val]
    ELSE [call EXCEPT !.pc = "done", !.ret = r.val]

probeTTL(c, self, sess, sid) ==
    /\ CanStart(c)
    /\ calls' = [calls EXCEPT ![c] =
            Returned(Begin("getTTL", self, sid, sess), getTTL(self, sess, sid))]
    /\ UNCHANGED <<store, leases, app>>

probeRawTTL(c, self, sess, sid) ==
    /\ CanStart(c)
    /\ calls' = [calls EXCEPT ![c] =
            Returned(Begin("getRawTTL", self, sid, sess), getRawTTL(self, sess, sid))]
    /\ UNCHANGED <<store, leases, app>>

----------------------------------------------------------------------------
(* The applications examined: which adapters exist, the session ids and   *)
(* records passed to them, and whether the client fails.                  *)

Plain(prefix) == Adapter(prefix, FALSE, Undefined)

WithTtl(ttl) == Adapter(Undefined, FALSE, ttl)

SidA == <<"a">>

SidAB == <<"a", "b">>

(* cookie.maxAge = 10000, 5000, 500, none; expires true or a Date *)
Sess10s == Session(Millis(10, 0), Bool(TRUE))

Sess5s == Session(Millis(5, 0), Bool(TRUE))

SessHalf == Session(Millis(0, 500), Bool(TRUE))

SessNoAge == Session(Undefined, Bool(TRUE))

SessDate == Session(Millis(10, 0), Date(<<"d">>))

SessLong == Session(Millis(maxTTL + 1, 0), Bool(TRUE))

App(adapters, sids, sessions, faults) ==
    [adapters |-> adapters, sids |-> sids, sessions |-> sessions, faults |-> faults,
     corrupt |-> FALSE]

(* The same application over a store that may hold values that are not JSON. *)
Corrupt(a) == [a EXCEPT !.corrupt = TRUE]

Apps ==
    { App({Plain(Undefined), Plain(Str(<<"p">>))}, {SidA}, {Sess10s}, FALSE),
      App({Plain(Str(<<"p">>)), Plain(Str(<<"p", "/", "a">>))}, {SidA}, {Sess10s}, FALSE),
      App({Plain(Str(<<>>))}, {SidA}, {Sess10s}, FALSE),
      App({Plain(Undefined)}, {SidA}, {Sess10s, Sess5s, SessHalf}, FALSE),
      App({Plain(Undefined)}, {SidA}, {SessNoAge, SessDate, SessLong}, FALSE),
      App({WithTtl(Obj), WithTtl(Fn("overMax"))}, {SidA}, {Sess10s}, FALSE),
      App({WithTtl(Num(maxTTL + 1)), WithTtl(Str(<<"4", "2">>))}, {SidA}, {Sess10s}, FALSE),
      App({Plain(Undefined)}, {SidA}, {Sess10s}, TRUE),
      Corrupt(App({Plain(Undefined)}, {SidA, SidAB}, {Sess10s}, FALSE)),
      App({Adapter(Undefined, TRUE, Undefined)}, {SidA}, {Sess10s, Sess5s}, FALSE) }

(* What a rejected request is rejected with. *)
Rejections == {Err("EtcdError"), Str(<<"a", "n", "y">>)}

BlowUps == IF app.faults THEN BOOLEAN ELSE {FALSE}

(* sessionData of the tests, which createTestClientAndKeys puts under no  *)
(* lease before a test runs.                                              *)
sessionData == Session(Millis(0, 10), Bool(TRUE))

AppKeys(a) == {key(self, sid) : self \in a.adapters, sid \in a.sids}

Seeded(S) == [k \in S |-> [value |-> JSONstringify(sessionData), lease |-> 0]]

(* client.put(key).value('typo{b:1}') on the keys of B, as the tests of   *)
(* bad data do.                                                            *)
SeededWith(S, B) ==
    [k \in S |-> IF k \in B THEN [value |-> BadText, lease |-> 0] ELSE Seeded(S)[k]]

Init ==
    /\ app \in Apps
    /\ \E S \in SUBSET AppKeys(app) :
          \E B \in (IF app.corrupt THEN SUBSET S ELSE {{}}) : store = SeededWith(S, B)
    /\ leases = <<>>
    /\ calls = [c \in Calls |-> IdleCall]

Next ==
    \/ \E c \in Calls, self \in app.adapters, sid \in app.sids, blowUp \in BlowUps :
          get(c, self, sid, blowUp)
    \/ \E c \in Calls, self \in app.adapters, sid \in app.sids, sess \in app.sessions,
          blowUp \in BlowUps : set(c, self, sid, sess, blowUp)
    \/ \E c \in Calls, self \in app.adapters, sid \in app.sids, sess \in app.sessions,
          blowUp \in BlowUps : touch(c, self, sid, sess, blowUp)
    \/ \E c \in Calls, self \in app.adapters, blowUp \in BlowUps : all(c, self, blowUp)
    \/ \E c \in Calls, self \in app.adapters, blowUp \in BlowUps : length(c, self, blowUp)
    \/ \E c \in Calls, self \in app.adapters, sid \in app.sids, blowUp \in BlowUps :
          destroy(c, self, sid, blowUp)
    \/ \E c \in Calls, self \in app.adapters, blowUp \in BlowUps : clear(c, self, blowUp)
    \/ \E c \in Calls : getResolved(c)
    \/ \E c \in Calls : leaseGranted(c)
    \/ \E c \in Calls : setResolved(c)
    \/ \E c \in Calls : allResolved(c)
    \/ \E c \in Calls : lengthResolved(c)
    \/ \E c \in Calls : destroyResolved(c)
    \/ \E c \in Calls : clearResolved(c)
    \/ \E c \in Calls, e \in Rejections : app.faults /\ rejected(c, e)
    \/ \E l \in Calls : expire(l)

Spec == Init /\ [][Next]_vars

(* Time passes in the store: a lease that is not kept alive runs out.     *)
(* The applications of SpecExpiry are those in which records are written  *)
(* under leases of 10 and 5 seconds.                                       *)
Expire == \E l \in Calls : expire(l)

ExpiryApps ==
    { App({Plain(Undefined)}, {SidA}, {Sess10s}, TRUE),
      App({Plain(Undefined)}, {SidA}, {Sess10s, Sess5s}, FALSE) }

InitExpiry ==
    /\ app \in ExpiryApps
    /\ \E S \in SUBSET AppKeys(app) : store = Seeded(S)
    /\ leases = <<>>
    /\ calls = [c \in Calls |-> IdleCall]

SpecExpiry == InitExpiry /\ [][Next]_vars /\ WF_vars(Expire)

----------------------------------------------------------------------------
(* TTL resolution on its own: one adapter, one record and one session id  *)
(* drawn from the overrides and cookie.maxAge values below; getTTL and    *)
(* getRawTTL are called directly, and through set and touch.              *)

TtlOverrides ==
    { Undefined, Null, Bool(FALSE), Bool(TRUE), Obj,
      Num(666), Num(0), Num(0 - 5), Num(maxTTL), Num(maxTTL + 1), NaN,
      Str(<<"4", "2">>), Str(<<>>), Str(<<"x">>), Str(<<"-", "7">>),
      Str(<<"6", "4", "4", "2", "4", "5", "1">>),
      Fn("const666"), Fn("overMax"), Fn("sidLength"), Fn("recordSeconds"), Fn("adapterFlag") }

MaxAges ==
    { Undefined, Null, Str(<<"w", "h", "a", "t", "?">>), NaN,
      Millis(10, 0), Millis(1, 0), Millis(0, 999), Millis(0, 0), Millis(0 - 1, 999),
      Millis(maxTTL, 999), Millis(maxTTL + 1, 0) }

TtlApps ==
    { App({WithTtl(t)}, {SidA}, {Session(m, Bool(TRUE))}, FALSE) :
        t \in TtlOverrides, m \in MaxAges }
    \cup { App({Adapter(Undefined, TRUE, Fn("adapterFlag"))}, {SidA}, {Sess10s}, FALSE),
           App({WithTtl(Fn("sidLength"))}, {SidAB}, {Sess10s}, FALSE) }

InitTTL ==
    /\ app \in TtlApps
    /\ store = <<>>
    /\ leases = <<>>
    /\ calls = [c \in Calls |-> IdleCall]

NextTTL ==
    \/ \E c \in Calls, self \in app.adapters, sid \in app.sids, sess \in app.sessions :
          probeTTL(c, self, sess, sid)
    \/ \E c \in Calls, self \in app.adapters, sid \in app.sids, sess \in app.sessions :
          probeRawTTL(c, self, sess, sid)
    \/ \E c \in Calls, self \in app.adapters, sid \in app.sids, sess \in app.sessions :
          set(c, self, sid, sess, FALSE)
    \/ \E c \in Calls, self \in app.adapters, sid \in app.sids, sess \in app.sessions :
          touch(c, self, sid, sess, FALSE)
    \/ \E c \in Calls : leaseGranted(c)
    \/ \E c \in Calls : setResolved(c)

SpecTTL == InitTTL /\ [][NextTTL]_vars

----------------------------------------------------------------------------
(* Claims on TTL resolution, checked under SpecTTL *)

Started(c) == calls[c].pc # "idle"

Skipping(c) == calls[c].op = "touch" /\ calls[c].self.skipTouch

Writes(c) == Started(c) /\ calls[c].op \in {"set", "touch"} /\ ~Skipping(c)

Outcome(call) == IF call.thrown # Undefined THEN Throw(call.thrown) ELSE Return(call.ret)

Succeeded(c) ==
    /\ calls[c].pc = "done"
    /\ calls[c].thrown = Undefined
    /\ Len(calls[c].cbs) = 1
    /\ calls[c].cbs[1].err = Null

(* What Number gives on the string overrides of TtlOverrides. *)
ParsedOverride(s) ==
    CASE s = <<"4", "2">> -> Num(42)
      [] s = <<>> -> Num(0)
      [] s = <<"-", "7">> -> Num(0 - 7)
      [] s = <<"6", "4", "4", "2", "4", "5", "1">> -> Num(6442451)
      [] OTHER -> NaN

EmptyOverride(o) == o.type \in {"undefined", "null"} \/ (o.type = "boolean" /\ ~o.bool)

(* The resolution order as the claim states it. *)
ResolvedAsStated(self, sess, sid) ==
    LET o == self.ttl
        m == sess.cookie.maxAge
    IN CASE o.type = "number" -> Return(o)
         [] o.type = "string" -> Return(ParsedOverride(o.str))
         [] o.type = "function" -> Return(CallFn(o, self, sess, sid))
         [] ~EmptyOverride(o) /\ o.type \notin {"number", "string", "function"} ->
               Throw(Err("TypeError"))
         [] OTHER ->
               IF m.type = "number"
               THEN (IF m.nan THEN Return(NaN) ELSE Return(Num(m.kilo + (m.unit \div 1000))))
               ELSE Return(Num(86400))

ClampedAsStated(r) ==
    IF ~r.threw /\ ~r.val.nan /\ r.val.num > 6442450 THEN Return(Num(6442450)) ELSE r

(* C8: getRawTTL resolves the TTL in the order number override, string    *)
(* override parsed as a number, function override called with (adapter,   *)
(* record, sid), type error for any other non-empty override, then        *)
(* floor(cookie.maxAge / 1000) when maxAge is a number and 86400          *)
(* otherwise; set and touch use the same resolution; maxAge 10000 gives   *)
(* 10, no maxAge gives 86400, override "42" gives 42.                      *)
TtlResolutionOrder ==
    \A c \in Calls :
        LET call == calls[c]
            stated == ResolvedAsStated(call.self, call.sess, call.sid)
            clamped == ClampedAsStated(stated)
        IN /\ call.op = "getRawTTL" => Outcome(call) = stated
           /\ call.op = "getTTL" => Outcome(call) = clamped
           /\ Writes(c) =>
                IF clamped.threw THEN call.thrown = clamped.val
                ELSE call.thrown = Undefined /\ call.ttl = clamped.val
           /\ call.op = "getRawTTL" /\ EmptyOverride(call.self.ttl) =>
                /\ call.sess.cookie.maxAge = Millis(10, 0) => call.ret = Num(10)
                /\ call.sess.cookie.maxAge = Undefined => call.ret = Num(86400)
           /\ call.op = "getRawTTL" /\ call.self.ttl = Str(<<"4", "2">>) => call.ret = Num(42)

TtlResolutionOrderWitness ==
    \E c, d \in Calls :
        /\ calls[c].op = "touch" /\ calls[d].op = "set"
        /\ calls[c].self.ttl = Str(<<"4", "2">>)
        /\ calls[c].sess.cookie.maxAge = Millis(10, 0)
        /\ calls[c].ttl = Num(42) /\ calls[d].ttl = Num(42)
        /\ Succeeded(c) /\ Succeeded(d)

(* C9: the TTL of every lease that set or touch creates is at most        *)
(* maxTTL = 6442450; a resolved value above it is replaced by exactly     *)
(* maxTTL and the write goes on to succeed, a resolved value at or below  *)
(* it is the TTL of the lease unchanged.                                   *)
TtlClamp ==
    /\ \A l \in DOMAIN leases : leases[l].ttl <= 6442450
    /\ \A c \in Calls :
         LET call == calls[c]
             raw == getRawTTL(call.self, call.sess, call.sid)
         IN (Writes(c) /\ ~raw.threw) =>
              IF ~raw.val.nan /\ raw.val.num > 6442450
              THEN /\ call.thrown = Undefined
                   /\ call.ttl = Num(6442450)
                   /\ call.pc = "done" => Succeeded(c)
                   /\ c \in DOMAIN leases => leases[c].ttl = 6442450
              ELSE /\ call.ttl = raw.val
                   /\ c \in DOMAIN leases => (~raw.val.nan /\ leases[c].ttl = raw.val.num)

TtlClampWitness ==
    \E c \in Calls :
        /\ calls[c].op = "set" /\ Succeeded(c)
        /\ calls[c].sess.cookie.maxAge = Millis(maxTTL + 1, 0)
        /\ EmptyOverride(calls[c].self.ttl)
        /\ c \in DOMAIN leases /\ leases[c].ttl = maxTTL
        /\ key(calls[c].self, calls[c].sid) \in DOMAIN store

UnsupportedOverride(o) ==
    ~EmptyOverride(o) /\ o.type \notin {"number", "string", "function"}

(* C3: with a non-empty ttl override of an unsupported type, set and      *)
(* touch (skipTouch = false) throw nothing to their caller: the callback  *)
(* is called with the type error, and nothing is requested from the store. *)
ConfigErrorThroughCallback ==
    \A c \in Calls :
        (Writes(c) /\ UnsupportedOverride(calls[c].self.ttl)) =>
            /\ calls[c].thrown = Undefined
            /\ calls[c].pc = "done"
            /\ Len(calls[c].cbs) = 1
            /\ calls[c].cbs[1].err = Err("TypeError")
            /\ calls[c].reqs = 0

----------------------------------------------------------------------------
(* Claims on the operations, checked under Spec *)

(* The store answers call c in this step, and the callback is called. *)
Answered(c) == calls[c].pc = "request" /\ calls'[c].pc = "done"

AnsweredOk(c) == Answered(c) /\ calls'[c].fault = "none" /\ calls'[c].cbs[1].err = Null

(* The prefix string an adapter is configured with ("sess" when none is). *)
ConfiguredPrefix(self) == IF self.prefix.type = "string" THEN self.prefix.str ELSE DefaultPrefix

(* The keys beginning with "Q/" for adapter q's prefix Q. *)
StoredUnder(q, st) == {k \in DOMAIN st : IsPrefix(ConfiguredPrefix(q) \o Slash, k)}

Kept(K) == \A k \in K : k \in DOMAIN store' /\ store'[k] = store[k]

(* C1: for adapters with distinct prefix strings P and Q, a clear() on    *)
(* the P adapter that has called back leaves every key beginning with     *)
(* "Q/" present and unchanged, and all() and length() on the P adapter    *)
(* return and count no key beginning with "Q/".                           *)
NamespaceIsolation ==
    [][\A c \in Calls : \A q \in app.adapters :
          (AnsweredOk(c) /\ ConfiguredPrefix(q) # ConfiguredPrefix(calls[c].self)) =>
             /\ calls[c].op = "clear" => Kept(StoredUnder(q, store))
             /\ calls[c].op = "length" =>
                   calls'[c].cbs[1].value.num
                       <= Cardinality(DOMAIN store \ StoredUnder(q, store))
             /\ calls[c].op = "all" =>
                   Len(calls'[c].cbs[1].value.items)
                       <= Cardinality(DOMAIN store \ StoredUnder(q, store))]_vars

(* C2: destroy(sid) deletes the key "<prefix>/<sid>" and no other key     *)
(* under the same prefix: every key "<prefix>/<s'>" with s' # sid is      *)
(* present with its value after destroy(sid) has called back.             *)
DestroySingleKey ==
    [][\A c \in Calls :
          (AnsweredOk(c) /\ calls[c].op = "destroy") =>
             LET k == key(calls[c].self, calls[c].sid)
             IN /\ k \notin DOMAIN store'
                /\ Kept(Under(key(calls[c].self, <<>>), store) \ {k})]_vars

(* No call other than c and d was in progress or made between the         *)
(* completion of c and the making of d.                                   *)
Consecutive(c, d) ==
    /\ c \in calls[d].after
    /\ \A e \in Calls \ {c, d} : Started(e) => (e \in calls[c].after \/ d \in calls[e].after)

SameSession(c, d) == calls[c].self = calls[d].self /\ calls[c].sid = calls[d].sid

(* C4: set(sid, record) followed immediately by get(sid) on the same      *)
(* adapter makes get call back with a null error and the record passed    *)
(* to set, whatever the record's cookie.maxAge (the client not failing).  *)
SetGetRoundTrip ==
    \A c, d \in Calls :
        ( /\ ~app.faults
          /\ calls[c].op = "set" /\ calls[d].op = "get" /\ calls[d].pc = "done"
          /\ SameSession(c, d) /\ Consecutive(c, d)
          /\ c \in DOMAIN leases => ~leases[c].expired )
        => calls[d].cbs = <<[err |-> Null, value |-> calls[c].sess]>>

(* C5: with skipTouch = true, touch calls back with a null error at once  *)
(* and requests nothing from the store: the keys, their values and the    *)
(* leases are unchanged by the call.                                       *)
SkipTouchIsInert ==
    [][\A c \in Calls :
          (calls[c].pc = "idle" /\ calls'[c].op = "touch" /\ calls'[c].self.skipTouch) =>
             /\ calls'[c].pc = "done"
             /\ calls'[c].cbs = <<[err |-> Null, value |-> Undefined]>>
             /\ calls'[c].thrown = Undefined
             /\ calls'[c].reqs = 0
             /\ store' = store /\ leases' = leases]_vars

SkipTouchIsInertWitness ==
    \E c, d \in Calls :
        /\ calls[c].op = "set" /\ Succeeded(c) /\ c \in calls[d].after
        /\ calls[d].op = "touch" /\ calls[d].self.skipTouch /\ calls[d].pc = "done"
        /\ SameSession(c, d) /\ calls[d].sess # calls[c].sess
        /\ store[key(calls[c].self, calls[c].sid)].lease = c
        /\ ~leases[c].expired

(* The requests a call has issued when its request is rejected: a set or  *)
(* touch has asked for a lease and, once it is granted, for the put.      *)
RequestsOf(c) ==
    IF calls[c].op \in {"set", "touch"} /\ c \in DOMAIN leases THEN 2 ELSE 1

(* C6: when the store rejects the request of a get, set, touch, all,      *)
(* length, destroy or clear, the callback is called exactly once, with    *)
(* the rejection value as its error; nothing is thrown to the caller and  *)
(* the call issues no further request.                                     *)
RejectionReachesCallback ==
    \A c \in Calls :
        calls[c].fault = "rejected" =>
            /\ calls[c].pc = "done"
            /\ Len(calls[c].cbs) = 1
            /\ calls[c].cbs[1].err = calls[c].reason
            /\ calls[c].thrown = Undefined
            /\ calls[c].reqs = RequestsOf(c)

RejectionReachesCallbackWitness ==
    \E c, d \in Calls :
        /\ calls[c].op = "length" /\ calls[c].fault = "rejected"
        /\ calls[c].cbs = <<[err |-> Str(<<"a", "n", "y">>), value |-> Null]>>
        /\ calls[d].op = "set" /\ calls[d].fault = "rejected" /\ calls[d].reqs = 2
        /\ calls[d].cbs[1].err = Err("EtcdError")

(* C7: when the client throws while the request of a get, set, all,       *)
(* length, destroy or clear is built, nothing is thrown to the caller and *)
(* the callback is called exactly once with the exception as its error,   *)
(* and with a null result by get, all and length.                          *)
ThrowReachesCallback ==
    \A c \in Calls :
        calls[c].fault = "threw" =>
            /\ calls[c].pc = "done"
            /\ calls[c].thrown = Undefined
            /\ Len(calls[c].cbs) = 1
            /\ calls[c].cbs[1].err = calls[c].reason
            /\ calls[c].op \in {"get", "all", "length"} => calls[c].cbs[1].value = Null
            /\ calls[c].reqs = 0

ThrowReachesCallbackWitness ==
    \E c, d \in Calls :
        /\ calls[c].op = "get" /\ calls[c].fault = "threw"
        /\ calls[c].cbs = <<[err |-> ClientError, value |-> Null]>>
        /\ calls[d].op = "set" /\ calls[d].fault = "threw"
        /\ calls[d].cbs = <<[err |-> ClientError, value |-> Undefined]>>

(* C10: get(sid) of a key that is absent, never set or removed by a       *)
(* completed destroy(sid), calls back with a null error and a null        *)
(* session.                                                                *)
GetAbsentIsNull ==
    \A c \in Calls :
        (calls[c].op = "get" /\ calls[c].pc = "done" /\ calls[c].fault = "none"
            /\ calls[c].saw = 0 - 1)
        => calls[c].cbs = <<[err |-> Null, value |-> Null]>>

GetAbsentIsNullWitness ==
    \E c, d \in Calls :
        /\ calls[c].op = "destroy" /\ Succeeded(c) /\ SameSession(c, d)
        /\ key(calls[c].self, calls[c].sid) \in calls[c].removed
        /\ calls[d].op = "get" /\ Consecutive(c, d) /\ calls[d].saw = 0 - 1
        /\ calls[d].cbs = <<[err |-> Null, value |-> Null]>>

SameAdapter(c, d) == calls[c].self = calls[d].self

(* C11: length() calls back with the number of keys stored under          *)
(* "<prefix>/" when the store answers: 0 when there is none, 0 straight   *)
(* after a completed clear(), and each successful set of a session id     *)
(* that has no key yet makes the number one more, so that N sets of       *)
(* distinct ids into an empty prefix give N.                              *)
LengthCountsKeys ==
    [][\A c \in Calls :
          LET p == key(calls[c].self, <<>>)
              k == key(calls[c].self, calls[c].sid)
          IN /\ (AnsweredOk(c) /\ calls[c].op = "length") =>
                  /\ calls'[c].cbs[1].value = Num(Cardinality(Under(p, store)))
                  /\ \A d \in Calls :
                        ( /\ calls[d].op = "clear" /\ Succeeded(d)
                          /\ SameAdapter(c, d) /\ Consecutive(d, c) )
                        => calls'[c].cbs[1].value = Num(0)
             /\ (AnsweredOk(c) /\ calls[c].op = "set") =>
                  Cardinality(Under(p, store')) =
                      Cardinality(Under(p, store)) + (IF k \in DOMAIN store THEN 0 ELSE 1)]_vars

LengthCountsKeysWitness ==
    \E c, d \in Calls :
        /\ calls[c].op = "set" /\ Succeeded(c) /\ calls[c].sid = SidA
        /\ calls[d].op = "length" /\ Succeeded(d) /\ Consecutive(c, d) /\ SameAdapter(c, d)
        /\ calls[d].cbs[1].value = Num(2)
        /\ DOMAIN store = {key(calls[c].self, SidA), key(calls[c].self, SidAB)}
        /\ store[key(calls[c].self, SidA)].lease = c

Malformed(k) == k \in DOMAIN store /\ JSONparse(store[k].value).threw

(* C12: a stored value that cannot be deserialized is reported, never     *)
(* thrown: get(sid) of such a key calls back with a non-null error and a  *)
(* null result, and so does all() whenever one value under its prefix is  *)
(* malformed, the other values being valid or not.                        *)
MalformedIsReported ==
    [][\A c \in Calls :
          LET p == key(calls[c].self, <<>>)
              k == key(calls[c].self, calls[c].sid)
              bad == (calls[c].op = "get" /\ Malformed(k))
                     \/ (calls[c].op = "all" /\ \E x \in Under(p, store) : Malformed(x))
          IN (Answered(c) /\ calls'[c].fault = "none" /\ bad) =>
                /\ Len(calls'[c].cbs) = 1
                /\ calls'[c].cbs[1].err \notin {Null, Undefined}
                /\ calls'[c].cbs[1].value = Null
                /\ calls'[c].thrown = Undefined
                /\ store' = store]_vars

MalformedIsReportedWitness ==
    \E c, d \in Calls :
        /\ calls[c].op = "all" /\ calls[c].pc = "done" /\ calls[c].fault = "none"
        /\ calls[c].cbs = <<[err |-> Err("SyntaxError"), value |-> Null]>>
        /\ calls[d].op = "get" /\ calls[d].pc = "done" /\ calls[d].fault = "none"
        /\ calls[d].cbs = <<[err |-> Err("SyntaxError"), value |-> Null]>>
        /\ Malformed(key(calls[d].self, calls[d].sid))
        /\ \E x \in Under(key(calls[c].self, <<>>), store) : ~Malformed(x)

AsSet(call) == [call EXCEPT !.op = "set"]

(* C13: with skipTouch = false, touch(sid, record, cb) is set(sid,        *)
(* record, cb): the call begins as the set of the same arguments begins   *)
(* (same TTL, same request, same exception or callback), every later step *)
(* of it is a step of set (lease granted, put acknowledged, rejection),   *)
(* and on success the key holds the record under the call's new lease of  *)
(* the resolved TTL.                                                       *)
TouchIsSet ==
    [][\A c \in Calls :
          LET call == calls'[c]
              k == key(call.self, call.sid)
          IN (call.op = "touch" /\ ~call.self.skipTouch /\ call # calls[c]) =>
               /\ calls[c].pc = "idle" =>
                     /\ \E blowUp \in BlowUps :
                           AsSet(call) = SetCall("set", call.self, call.sid, call.sess, blowUp)
                     /\ store' = store /\ leases' = leases
               /\ calls[c].pc # "idle" =>
                     leaseGranted(c) \/ setResolved(c) \/ \E e \in Rejections : rejected(c, e)
               /\ (calls[c].pc = "request" /\ call.fault = "none") =>
                     /\ call.cbs = <<[err |-> Null, value |-> Null]>>
                     /\ store'[k] = [value |-> JSONstringify(call.sess), lease |-> c]
                     /\ leases'[c].ttl = getTTL(call.self, call.sess, call.sid).val.num
                     /\ call.reqs = 2]_vars

TouchIsSetWitness ==
    \E c, d \in Calls :
        /\ calls[c].op = "set" /\ calls[d].op = "touch" /\ ~calls[d].self.skipTouch
        /\ SameSession(c, d) /\ calls[c].sess = calls[d].sess /\ Consecutive(c, d)
        /\ Succeeded(c) /\ Succeeded(d)
        /\ calls[c].cbs = calls[d].cbs /\ calls[c].reqs = calls[d].reqs
        /\ calls[c].ttl = calls[d].ttl /\ leases[c].ttl = leases[d].ttl
        /\ store[key(calls[d].self, calls[d].sid)] =
               [value |-> JSONstringify(calls[c].sess), lease |-> d]

(* C14: all() calls back with a null error and the deserialized records   *)
(* of the keys stored under "<prefix>/", one per key, none of them the    *)
(* record of a key under the prefix of another adapter, and the empty     *)
(* sequence when no key is under the prefix (the stored values being      *)
(* well-formed and the client not failing).                               *)
AllReturnsOwnRecords ==
    [][\A c \in Calls :
          LET p == key(calls[c].self, <<>>)
              own == Under(p, store)
              value == calls'[c].cbs[1].value
          IN (Answered(c) /\ calls'[c].fault = "none" /\ calls[c].op = "all"
                /\ \A k \in own : ~Malformed(k)) =>
               /\ calls'[c].cbs[1].err = Null
               /\ value.type = "array"
               /\ Len(value.items) = Cardinality(own)
               /\ \A i \in 1..Len(value.items) :
                     value.items[i] = JSONparse(store[SortedKeys(own)[i]].value).val
               /\ own = {} => value = Arr(<<>>)
               /\ \A q \in app.adapters :
                     ConfiguredPrefix(q) # ConfiguredPrefix(calls[c].self) =>
                        own \cap StoredUnder(q, store) = {}]_vars

(* The prefix in use: the configured one unless it is missing or empty. *)
EffectivePrefix(self) ==
    IF self.prefix.type = "string" /\ self.prefix.str # <<>> THEN self.prefix.str
    ELSE <<"s", "e", "s", "s">>

(* What the answered call c did to the store, or was told about it, is    *)
(* what addressing "<P(adapter)>/<sid>" (the bare "<P(adapter)>/" for     *)
(* all, length and clear) does or tells.                                   *)
Addresses(c, P(_)) ==
    LET self == calls[c].self
        k == P(self) \o <<"/">> \o calls[c].sid
        scan == {x \in DOMAIN store : IsPrefix(P(self) \o <<"/">>, x)}
        below == {x \in DOMAIN store : IsPrefix(k, x)}
        op == calls[c].op
    IN /\ op \in {"set", "touch"} =>
            /\ k \in DOMAIN store' /\ store'[k].lease = c
            /\ \A x \in DOMAIN store \ {k} : x \in DOMAIN store' /\ store'[x] = store[x]
            /\ DOMAIN store' \subseteq DOMAIN store \cup {k}
       /\ op = "get" =>
            calls'[c].saw = IF k \in DOMAIN store THEN store[k].lease ELSE 0 - 1
       /\ op = "destroy" =>
            /\ k \notin DOMAIN store'
            /\ k \in DOMAIN store => k \in calls'[c].removed
            /\ calls'[c].removed \subseteq below
       /\ op = "clear" => calls'[c].removed = scan /\ DOMAIN store' = DOMAIN store \ scan
       /\ op = "length" => calls'[c].cbs[1].value = Num(Cardinality(scan))
       /\ (op = "all" /\ \A x \in scan : ~Malformed(x)) =>
            Len(calls'[c].cbs[1].value.items) = Cardinality(scan)

(* C15 as stated: every operation addresses "<prefix>/<sid>", <prefix>    *)
(* being the configured prefix, and "sess" when none is configured.       *)
KeyOfConfiguredPrefix ==
    [][\A c \in Calls :
          (Answered(c) /\ calls'[c].fault = "none") => Addresses(c, ConfiguredPrefix)]_vars

(* C15, amended: every operation addresses "<prefix>/<sid>", <prefix>     *)
(* being the configured prefix when it is a non-empty string, and "sess"  *)
(* when no prefix is configured or the configured prefix is the empty     *)
(* string; all, length and clear address the bare "<prefix>/".            *)
KeyOfEffectivePrefix ==
    [][\A c \in Calls :
          (Answered(c) /\ calls'[c].fault = "none") => Addresses(c, EffectivePrefix)]_vars

KeyOfEffectivePrefixWitness ==
    \E c, d \in Calls :
        /\ calls[c].op = "set" /\ Succeeded(c) /\ calls[c].self.prefix = Str(<<>>)
        /\ calls[d].op = "length" /\ Succeeded(d) /\ Consecutive(c, d) /\ SameAdapter(c, d)
        /\ DOMAIN store = {<<"s", "e", "s", "s", "/", "a">>}
        /\ store[<<"s", "e", "s", "s", "/", "a">>].lease = c
        /\ calls[d].cbs[1].value = Num(1)

(* The calls that went to the store: not skipped, and nothing thrown      *)
(* before a request was made.                                              *)
WentToStore(c) ==
    /\ Started(c) /\ ~Skipping(c)
    /\ calls[c].op \in {"get", "set", "touch", "all", "length", "destroy", "clear"}
    /\ calls[c].fault # "threw" /\ calls[c].thrown = Undefined

ReportedError(c) ==
    calls[c].pc = "done" /\ calls[c].cbs # <<>> /\ calls[c].cbs[1].err # Null

(* C17: an operation that calls back with an error has left the store as  *)
(* it was: it removed no key, no key is bound to a lease of the call, and *)
(* no lease created by the call exists.                                    *)
NoPartialFailure ==
    \A c \in Calls :
        ReportedError(c) =>
            /\ calls[c].removed = {}
            /\ \A k \in DOMAIN store : store[k].lease # c
            /\ c \notin DOMAIN leases

SameKey(c, d) == key(calls[c].self, calls[c].sid) = key(calls[d].self, calls[d].sid)

(* No set or touch of the key of c other than those completed before c    *)
(* was made, and no delete other than those completed before c removed    *)
(* the key.                                                                *)
LastWriter(c) ==
    \A d \in Calls \ {c} :
        /\ (Writes(d) /\ SameKey(c, d)) => d \in calls[c].after
        /\ key(calls[c].self, calls[c].sid) \in calls[d].removed => d \in calls[c].after

SetSucceeded(c) == calls[c].op = "set" /\ Succeeded(c) /\ c \in DOMAIN leases

(* C18: after a set(sid, record) that succeeded, with no later set or     *)
(* touch of sid, the lease is not kept alive: the key holds the written   *)
(* value until the lease expires, the lease does expire and the store     *)
(* then holds no key under it, and from then on get(sid) calls back with  *)
(* null.                                                                   *)
ExpiryOfSet ==
    /\ [](\A c \in Calls :
            (SetSucceeded(c) /\ LastWriter(c)) =>
               LET k == key(calls[c].self, calls[c].sid)
               IN /\ ~leases[c].keepalive
                  /\ ~leases[c].expired =>
                        /\ k \in DOMAIN store
                        /\ store[k] = [value |-> JSONstringify(calls[c].sess), lease |-> c]
                  /\ leases[c].expired => k \notin DOMAIN store)
    /\ [][\A c, d \in Calls :
            ( /\ SetSucceeded(c) /\ LastWriter(c) /\ leases[c].expired
              /\ calls[d].op = "get" /\ SameKey(c, d)
              /\ Answered(d) /\ calls'[d].fault = "none" )
            => calls'[d].cbs = <<[err |-> Null, value |-> Null]>>]_vars
    /\ \A c \in Calls :
          SetSucceeded(c) ~>
              (c \in DOMAIN leases /\ leases[c].expired
                 /\ \A k \in DOMAIN store : store[k].lease # c)

ExpiryOfSetWitness ==
    \E c, d \in Calls :
        /\ SetSucceeded(c) /\ leases[c].expired /\ leases[c].ttl = 10
        /\ calls[d].op = "get" /\ SameKey(c, d) /\ c \in calls[d].after
        /\ calls[d].cbs = <<[err |-> Null, value |-> Null]>> /\ calls[d].saw = 0 - 1
        /\ key(calls[c].self, calls[c].sid) \notin DOMAIN store

(* C19: a touch (skipTouch = false) that completes successfully leaves    *)
(* the key bound to the lease that call created, of the TTL resolved from *)
(* the record passed to touch, and holding that record; the expiry of a   *)
(* lease removes no key bound to another lease, so the expiry of an       *)
(* earlier lease of the session does not remove the refreshed key.        *)
RefreshByTouch ==
    [][/\ \A d \in Calls :
            (Answered(d) /\ calls'[d].fault = "none" /\ calls[d].op = "touch") =>
               LET k == key(calls[d].self, calls[d].sid)
               IN /\ k \in DOMAIN store'
                  /\ store'[k] = [value |-> JSONstringify(calls[d].sess), lease |-> d]
                  /\ leases'[d].ttl =
                        getTTL(calls[d].self, calls[d].sess, calls[d].sid).val.num
                  /\ ~leases'[d].expired
                  /\ \A k2 \in DOMAIN store \ {k} : store[k2].lease # d
       /\ \A l \in DOMAIN leases :
            (~leases[l].expired /\ leases'[l].expired) =>
               \A k \in DOMAIN store :
                   store[k].lease # l => (k \in DOMAIN store' /\ store'[k] = store[k])]_vars

RefreshByTouchWitness ==
    \E c, d \in Calls :
        /\ SetSucceeded(c) /\ calls[d].op = "touch" /\ Succeeded(d) /\ d \in DOMAIN leases
        /\ SameSession(c, d) /\ Consecutive(c, d) /\ calls[c].sess # calls[d].sess
        /\ leases[c].expired /\ ~leases[d].expired
        /\ leases[c].ttl = 10 /\ leases[d].ttl = 5
        /\ key(calls[d].self, calls[d].sid) \in DOMAIN store
        /\ store[key(calls[d].self, calls[d].sid)] =
               [value |-> JSONstringify(calls[d].sess), lease |-> d]

Concurrent(c, d) ==
    /\ c # d /\ Started(c) /\ Started(d)
    /\ c \notin calls[d].after /\ d \notin calls[c].after

Written(c) == [value |-> JSONstringify(calls[c].sess), lease |-> c]

(* C20: the write of a set or touch that the store applies leaves the     *)
(* key holding that call's record under that call's lease; a key bound to *)
(* the lease of a call always holds the record of that call; so when two  *)
(* concurrent sets of one session id with different records have both     *)
(* succeeded, the key holds the record and the lease of one of them, the  *)
(* one applied last, never the record of one under the lease of the       *)
(* other.                                                                  *)
LastWriteWins ==
    [][/\ \A c \in Calls :
            (AnsweredOk(c) /\ calls[c].op \in {"set", "touch"}) =>
               /\ key(calls[c].self, calls[c].sid) \in DOMAIN store'
               /\ store'[key(calls[c].self, calls[c].sid)] = Written(c)
       /\ \A k \in DOMAIN store' :
            store'[k].lease # 0 =>
               /\ k = key(calls'[store'[k].lease].self, calls'[store'[k].lease].sid)
               /\ store'[k].value = JSONstringify(calls'[store'[k].lease].sess)
       /\ \A c, d \in Calls :
            ( /\ Concurrent(c, d) /\ SameKey(c, d)
              /\ Writes(c) /\ Writes(d) /\ calls[c].pc = "done" /\ Succeeded(c)
              /\ AnsweredOk(d) )
            => /\ \/ key(calls[c].self, calls[c].sid) \notin DOMAIN store
                  \/ \E e \in Calls \ {c, d} : Started(e)
                  \/ store[key(calls[c].self, calls[c].sid)] = Written(c)
               /\ store'[key(calls[d].self, calls[d].sid)] = Written(d)]_vars

LastWriteWinsWitness ==
    \E c, d \in Calls :
        /\ Concurrent(c, d) /\ SameKey(c, d)
        /\ calls[c].op = "set" /\ calls[d].op = "set" /\ calls[c].sess # calls[d].sess
        /\ Succeeded(c) /\ Succeeded(d)
        /\ c < d /\ ~leases[c].expired /\ ~leases[d].expired
        /\ key(calls[c].self, calls[c].sid) \in DOMAIN store
        /\ store[key(calls[c].self, calls[c].sid)] = Written(c)

(* What the store answers to the read of call c, from its arguments, the  *)
(* configuration of its adapter and the store contents alone.             *)
ReadResult(c) ==
    LET self == calls[c].self
        p == EffectivePrefix(self) \o <<"/">>
        k == p \o calls[c].sid
        scan == {x \in DOMAIN store : IsPrefix(p, x)}
    IN CASE calls[c].op = "get" ->
                IF k \notin DOMAIN store THEN [err |-> Null, value |-> Null]
                ELSE IF Malformed(k) THEN [err |-> Err("SyntaxError"), value |-> Null]
                ELSE [err |-> Null, value |-> JSONparse(store[k].value).val]
         [] calls[c].op = "length" -> [err |-> Null, value |-> Num(Cardinality(scan))]
         [] calls[c].op = "all" ->
                IF \E x \in scan : Malformed(x)
                THEN [err |-> Err("SyntaxError"), value |-> Null]
                ELSE [err |-> Null,
                      value |-> Arr([i \in 1..Cardinality(scan) |->
                                      JSONparse(store[SortedKeys(scan)[i]].value).val])]

(* C21: get, all and length are read-only and the adapter keeps no state: *)
(* every step of such a call, whether it succeeds or fails, leaves the    *)
(* keys, values and leases of the store unchanged; no step changes the    *)
(* configuration of an adapter; and the answer of a read is determined by *)
(* its arguments, the configuration and the store contents.               *)
ReadsAreReadOnly ==
    [][/\ app' = app
       /\ \A c \in Calls :
            (calls'[c] # calls[c] /\ calls'[c].op \in {"get", "all", "length"}) =>
               /\ store' = store /\ leases' = leases
               /\ calls'[c].self \in app.adapters
               /\ calls[c].pc # "idle" => calls'[c].self = calls[c].self
               /\ (Answered(c) /\ calls'[c].fault = "none") =>
                     calls'[c].cbs = <<ReadResult(c)>>]_vars

ReadsAreReadOnlyWitness ==
    \E c, d \in Calls :
        /\ calls[c].op = "all" /\ calls[c].fault = "rejected" /\ calls[c].pc = "done"
        /\ calls[d].op = "get" /\ Succeeded(d) /\ calls[d].saw = 0
        /\ calls[d].cbs[1].value = sessionData
        /\ store = Seeded({key(calls[d].self, calls[d].sid)}) /\ leases = <<>>

(* C22: set reaches the store in two steps, the lease and then the write, *)
(* and a destroy called after the set can have its delete applied between *)
(* the two or before them.  What a successful destroy guarantees is that  *)
(* the key is absent when the delete is applied and the callback called;  *)
(* the write of a set in flight at that moment is not undone or refused:  *)
(* when it is applied, the key holds the record of that set, and both     *)
(* calls have reported success.                                            *)
DestroyRacesWrite ==
    [][\A c, d \in Calls :
          LET k == key(calls[d].self, calls[d].sid) IN
          /\ (AnsweredOk(d) /\ calls[d].op = "destroy") =>
                /\ k \notin DOMAIN store'
                /\ calls'[d].cbs = <<[err |-> Null, value |-> Null]>>
                /\ (Writes(c) /\ calls[c].pc \in {"grant", "request"}) =>
                      calls'[c] = calls[c] /\ leases' = leases
          /\ ( /\ calls[d].op = "destroy" /\ calls[d].pc = "done" /\ Succeeded(d)
               /\ Writes(c) /\ SameKey(c, d) /\ Concurrent(c, d)
               /\ AnsweredOk(c) )
             => /\ calls[c].reqs = 2
                /\ k \in DOMAIN store' /\ store'[k] = Written(c)
                /\ calls'[c].cbs = <<[err |-> Null, value |-> Null]>>
                /\ calls'[d] = calls[d]]_vars

DestroyRacesWriteWitness ==
    \E c, d \in Calls :
        /\ c < d /\ Concurrent(c, d) /\ SameKey(c, d)
        /\ calls[c].op = "set" /\ Succeeded(c) /\ calls[c].reqs = 2
        /\ calls[d].op = "destroy" /\ Succeeded(d)
        /\ key(calls[d].self, calls[d].sid) \in calls[d].removed
        /\ key(calls[c].self, calls[c].sid) \in DOMAIN store
        /\ store[key(calls[c].self, calls[c].sid)] = Written(c)
        /\ ~leases[c].expired

WrittenByTouch(k) ==
    /\ k \in DOMAIN store /\ store[k].lease # 0
    /\ calls[store[k].lease].op = "touch"

(* C23: a touch (skipTouch = false) does not check that the session      *)
(* exists: whether the key is present, was never written, was removed by  *)
(* a completed destroy or clear, or went with its lease, the touch that   *)
(* succeeds writes the key with the record passed in; a get of a key so   *)
(* written calls back with that record, not null, and length counts it.   *)
ResurrectionByTouch ==
    [][\A c \in Calls :
          LET k == key(calls[c].self, calls[c].sid)
              p == key(calls[c].self, <<>>)
          IN /\ (AnsweredOk(c) /\ calls[c].op = "touch") =>
                  /\ k \in DOMAIN store' /\ store'[k] = Written(c)
                  /\ k \notin DOMAIN store =>
                        Cardinality(Under(p, store')) = Cardinality(Under(p, store)) + 1
             /\ (Answered(c) /\ calls'[c].fault = "none" /\ calls[c].op = "get"
                    /\ WrittenByTouch(k)) =>
                  calls'[c].cbs =
                     <<[err |-> Null,
                        value |-> JSONparse(JSONstringify(calls[store[k].lease].sess)).val]>>
             /\ (AnsweredOk(c) /\ calls[c].op = "length") =>
                  calls'[c].cbs[1].value.num >=
                     Cardinality({x \in Under(p, store) : WrittenByTouch(x)})]_vars

ResurrectionByTouchWitness ==
    \E c, d \in Calls :
        /\ calls[c].op \in {"destroy", "clear"} /\ Succeeded(c)
        /\ calls[d].op = "touch" /\ Succeeded(d) /\ Consecutive(c, d)
        /\ SameAdapter(c, d)
        /\ key(calls[d].self, calls[d].sid) \in calls[c].removed
        /\ WrittenByTouch(key(calls[d].self, calls[d].sid))
        /\ store[key(calls[d].self, calls[d].sid)] = Written(d)

(* C24: in set (and touch, skipTouch = false) the success callback comes  *)
(* after the store acknowledged the write, the lease being released by    *)
(* then, and the callback is called once, whatever the release does; when *)
(* the write or the lease is rejected the callback receives the error and *)
(* the lease the call created is not released: release is called if and   *)
(* only if the write succeeded.                                            *)
ReleaseIffWritten ==
    \A c \in Calls :
        Writes(c) =>
            /\ calls[c].released <=> Succeeded(c)
            /\ Len(calls[c].cbs) <= 1
            /\ c \in DOMAIN leases => (leases[c].keepalive <=> ~calls[c].released)
            /\ Succeeded(c) =>
                  /\ calls[c].reqs = 2 /\ calls[c].fault = "none"
                  /\ c \in DOMAIN leases
                  /\ calls[c].cbs = <<[err |-> Null, value |-> Null]>>
            /\ calls[c].fault = "rejected" =>
                  /\ calls[c].cbs = <<[err |-> calls[c].reason, value |-> Null]>>
                  /\ ~calls[c].released
                  /\ c \in DOMAIN leases => (leases[c].keepalive /\ ~leases[c].expired)

ReleaseIffWrittenWitness ==
    \E c, d \in Calls :
        /\ calls[c].op = "set" /\ calls[c].fault = "rejected" /\ calls[c].reqs = 2
        /\ c \in DOMAIN leases /\ leases[c].keepalive /\ ~calls[c].released
        /\ calls[d].op = "set" /\ Succeeded(d) /\ calls[d].released
        /\ d \in DOMAIN leases /\ ~leases[d].keepalive

(* The number an override of 0 or below stands for. *)
LowOverride(o) ==
    CASE o.type = "number" /\ ~o.nan /\ o.num <= 0 -> Return(o)
      [] o = Str(<<>>) -> Return(Num(0))
      [] o = Str(<<"-", "7">>) -> Return(Num(0 - 7))
      [] OTHER -> Throw(Undefined)

(* C25: getTTL clamps from above only.  With no override and a numeric    *)
(* cookie.maxAge m, set and touch ask for a lease of exactly              *)
(* min(floor(m / 1000), 6442450) seconds: 0 for 0 <= m < 1000, negative   *)
(* for negative m; an override of 0 or below is passed on unchanged; the  *)
(* value is never raised to 1 nor replaced by 86400.                      *)
NoLowerBound ==
    \A c \in Calls :
        LET call == calls[c]
            m == call.sess.cookie.maxAge
            low == LowOverride(call.self.ttl)
            asked == IF call.op = "getTTL" THEN call.ret ELSE call.ttl
        IN ((Writes(c) \/ call.op = "getTTL") /\ call.thrown = Undefined) =>
             /\ (EmptyOverride(call.self.ttl) /\ m.type = "number" /\ ~m.nan) =>
                   /\ asked = Num(IF m.kilo > 6442450 THEN 6442450 ELSE m.kilo)
                   /\ m.kilo = 0 => asked = Num(0)
                   /\ m.kilo < 0 => asked.num < 0
             /\ ~low.threw => asked = low.val
             /\ (~asked.nan /\ asked.num < 1 /\ Writes(c)) =>
                   /\ calls[c].fault = "threw" /\ calls[c].reqs = 0
                   /\ c \notin DOMAIN leases

NoLowerBoundWitness ==
    \E c, d \in Calls :
        /\ calls[c].op = "set" /\ calls[c].pc = "done"
        /\ calls[c].sess.cookie.maxAge = Millis(0, 999)
        /\ EmptyOverride(calls[c].self.ttl)
        /\ calls[c].ttl = Num(0) /\ calls[c].fault = "threw"
        /\ calls[d].op = "getTTL" /\ calls[d].ret = Num(0)

(* C26: destroy(sid) of a session id that has no key, and clear() of a    *)
(* prefix that has none, call back with a null error and leave the store  *)
(* unchanged; a destroy(sid) straight after a completed destroy(sid)      *)
(* reports success as the first did and changes nothing.                  *)
DeleteIsIdempotent ==
    [][\A c \in Calls :
          LET k == key(calls[c].self, calls[c].sid)
              p == key(calls[c].self, <<>>)
          IN (Answered(c) /\ calls'[c].fault = "none") =>
               /\ (calls[c].op = "destroy" /\ k \notin DOMAIN store) =>
                     /\ calls'[c].cbs = <<[err |-> Null, value |-> Null]>>
                     /\ store' = store /\ leases' = leases
               /\ (calls[c].op = "clear" /\ Under(p, store) = {}) =>
                     /\ calls'[c].cbs = <<[err |-> Null, value |-> Null]>>
                     /\ store' = store /\ leases' = leases
               /\ \A d \in Calls :
                     ( /\ calls[c].op = "destroy" /\ calls[d].op = "destroy"
                       /\ Succeeded(d) /\ SameSession(c, d) /\ Consecutive(d, c) )
                     => /\ calls'[c].cbs = calls[d].cbs
                        /\ store' = store /\ leases' = leases]_vars

====
